---- MODULE Spec2Model ----
(***************************************************************************)
(* Client-side session management of the Todo application: the auth       *)
(* utilities (utils/auth.js), the login form, the navbar Login/Logout     *)
(* button, the ProtectedRoute validation and the account deletion of the  *)
(* profile page, over the browser's localStorage and sessionStorage.      *)
(***************************************************************************)
EXTENDS Integers, FiniteSets, Sequences, TLC

\* ------------------------------------------------------------------ bounds
\* The wall clock (Date.now() / 1000) takes the values 0..MaxTime, and the
\* exp claims of the tokens range over the same values.
MaxTime == 1
\* At most MaxInFlight fetch requests are awaiting their response at once.
MaxInFlight == 2

\* ------------------------------------------------------- JavaScript values
\* The values a query returns, by their JavaScript rendering.
JSTrue == "true"
JSFalse == "false"
JSNull == "null"
JSEmptyString == "''"
\* The value of an async call that is suspended at its await.
Pending == "pending"

\* decoded.exp of a payload without an exp claim (undefined).
NoExp == -1

\* ------------------------------------------------------------------ tokens
\* A token string is abstracted by what jwtDecode makes of it:
\*   "empty"     the empty string,
\*   "malformed" a non-empty string jwtDecode throws on,
\*   "jwt"       a decodable token, exp its exp claim (NoExp: no claim).
\* "null" is getItem's answer for an absent key and "undefined" a missing
\* access_token field; neither is a string.
Null == [kind |-> "null", exp |-> NoExp]
Undefined == [kind |-> "undefined", exp |-> NoExp]
EmptyToken == [kind |-> "empty", exp |-> NoExp]
MalformedToken == [kind |-> "malformed", exp |-> NoExp]
Jwt(e) == [kind |-> "jwt", exp |-> e]
ExpValues == (0..MaxTime) \cup {NoExp}
TokenStrings == {EmptyToken, MalformedToken} \cup {Jwt(e) : e \in ExpValues}

\* JavaScript truthiness of a token value: null, undefined and "" are falsy.
Truthy(t) == t.kind \in {"malformed", "jwt"}

\* ----------------------------------------------------------------- storage
\* A Storage object is a function from its present keys to their values.
SessionKeys == {"token", "username", "userID"}
CounterKeys == {"numIncompleteTodos", "numCompletedTodos", "numOverdueTodos"}
MarkerKey == "loggedIn"
UnrelatedKeys == {"theme"}
EmptyStorage == [k \in {} |-> ""]

getItem(l, k) == IF k \in DOMAIN l THEN l[k] ELSE Null
setItem(l, k, v) == [x \in DOMAIN l \cup {k} |-> IF x = k THEN v ELSE l[x]]
removeItem(l, k) == [x \in DOMAIN l \ {k} |-> l[x]]
clear(l) == EmptyStorage

Users == {"alice", "bob"}
UserID(u) == IF u = "alice" THEN "1" ELSE "2"

VARIABLES
  localStorage,    \* the durable store
  sessionStorage,  \* the session-scoped store
  now,             \* the wall clock, in seconds
  inflight,        \* requests awaiting their response, per kind
  loggedIn,        \* the Login component's loggedIn state
  last,            \* the most recent step and what it returned
  route,           \* the router's current location
  isAuthenticated, \* ProtectedRoute's isAuthenticated state
  mounted,         \* TodoPage is mounted
  todos,           \* TodoPage's todos state
  requests,        \* TodoPage's and SignUpPage's requests awaiting a response
  displayed,       \* the list as the last render of TodoPage ordered it
  pass,            \* the last count pass and the last sort: instants, counts
  error            \* TodoPage's error.create message

pageVars == <<isAuthenticated, mounted, todos, requests, displayed, pass, error>>
vars == <<localStorage, sessionStorage, now, inflight, loggedIn, last,
          route, pageVars>>

\* ------------------------------------------------------------ auth.js
getToken(l) == getItem(l, "token")

\* jwtDecode throws on anything that is not a decodable token string.
jwtDecodeThrows(t) == t.kind # "jwt"

\* isTokenExpired with the comparison the wrong way round: decoded.exp > now.
isTokenExpired_Inverted(t, clock) ==
  IF jwtDecodeThrows(t) THEN TRUE
  ELSE IF t.exp = NoExp THEN FALSE
  ELSE t.exp > clock

\* decoded.exp < now: a comparison with undefined is false.
isTokenExpired(t, clock) ==
  IF jwtDecodeThrows(t) THEN TRUE
  ELSE IF t.exp = NoExp THEN FALSE
  ELSE t.exp < clock

\* isLoggedIn without the expiry check: return !!token.
isLoggedIn_TokenOnly(l, clock) ==
  IF Truthy(getToken(l)) THEN JSTrue ELSE JSFalse

\* token && !isTokenExpired(token): a falsy token is returned as it is.
isLoggedIn(l, clock) ==
  LET token == getToken(l) IN
  IF ~Truthy(token)
  THEN (IF token.kind = "empty" THEN JSEmptyString ELSE JSNull)
  ELSE (IF isTokenExpired(token, clock) THEN JSFalse ELSE JSTrue)

\* logout that forgets to remove numOverdueTodos.
logout_KeepsOverdue(l) ==
  LET l1 == removeItem(l, "token")
      l2 == removeItem(l1, "username")
      l3 == removeItem(l2, "userID")
      l4 == removeItem(l3, "numIncompleteTodos")
      l5 == removeItem(l4, "numCompletedTodos")
  IN setItem(l5, "loggedIn", "false")

\* logout that clears the whole store before it sets the marker.
logout_ClearsStore(l) == setItem(clear(l), "loggedIn", "false")

\* logout that flips the marker: "false" when it was set otherwise, removed
\* when it was "false" already.
logout_TogglesMarker(l) ==
  LET l1 == removeItem(l, "token")
      l2 == removeItem(l1, "username")
      l3 == removeItem(l2, "userID")
      l4 == removeItem(l3, "numIncompleteTodos")
      l5 == removeItem(l4, "numCompletedTodos")
      l6 == removeItem(l5, "numOverdueTodos")
  IN IF "loggedIn" \in DOMAIN l /\ l["loggedIn"] = "false"
     THEN removeItem(l6, "loggedIn")
     ELSE setItem(l6, "loggedIn", "false")

logout(l) ==
  LET l1 == removeItem(l, "token")
      l2 == removeItem(l1, "username")
      l3 == removeItem(l2, "userID")
      l4 == removeItem(l3, "numIncompleteTodos")
      l5 == removeItem(l4, "numCompletedTodos")
      l6 == removeItem(l5, "numOverdueTodos")
  IN setItem(l6, "loggedIn", "false")

\* clearAllAuthData without sessionStorage.clear().
clearAllAuthData_LocalOnly(l, s) == [ls |-> clear(l), ss |-> s]

clearAllAuthData(l, s) == [ls |-> clear(l), ss |-> clear(s)]

\* ------------------------------------------------------------ bookkeeping
\* Key k is present in store l; no session or counter key is present in l.
Has(l, k) == k \in DOMAIN l
SessionAbsent(l) == \A k \in SessionKeys \cup CounterKeys : ~Has(l, k)

RequestKinds == {"validate", "login", "delete", "signup", "guard"}
Total(f) ==
  f["validate"] + f["login"] + f["delete"] + f["signup"] + f["guard"]
Issue(f, k) == [f EXCEPT ![k] = @ + 1]
Settle(f, k) == [f EXCEPT ![k] = @ - 1]

Step(op, ret, outcome, tok, fetched, cleared) ==
  [op |-> op, ret |-> ret, outcome |-> outcome, tok |-> tok,
   fetched |-> fetched, cleared |-> cleared,
   afterLogout |-> (last.op = "logout")]

\* The last passes of a TodoPage that has not rendered a list yet.
NoPass ==
  [sort |-> {}, count |-> {},
   counts |-> [completed |-> 0, incomplete |-> 0, overdue |-> 0]]

\* The router moves to r. Leaving a location unmounts its page: the state of
\* TodoPage is discarded, and the responses it still awaits can only set the
\* state of the unmounted component.
Navigate(r) ==
  /\ route' = r
  /\ IF r = route
     THEN UNCHANGED pageVars
     ELSE /\ isAuthenticated' = JSNull
          /\ mounted' = FALSE
          /\ todos' = <<>>
          /\ requests' = {}
          /\ displayed' = <<>>
          /\ pass' = NoPass
          /\ error' = ""

\* ------------------------------------------------------------------- Init
\* A first visit: both stores are empty, nothing is in flight.
Init ==
  /\ localStorage = EmptyStorage
  /\ sessionStorage = EmptyStorage
  /\ now = 0
  /\ inflight = [k \in RequestKinds |-> 0]
  /\ loggedIn = isLoggedIn(localStorage, now)
  /\ last = [op |-> "load", ret |-> JSNull, outcome |-> "none", tok |-> Null,
             fetched |-> FALSE, cleared |-> FALSE, afterLogout |-> FALSE]
  /\ route = "/"
  /\ isAuthenticated = JSNull
  /\ mounted = FALSE
  /\ todos = <<>>
  /\ requests = {}
  /\ displayed = <<>>
  /\ pass = NoPass
  /\ error = ""

\* A page load over whatever earlier visits left in the two stores.
StoredUsers == {"alice"}
LocalContents ==
  { [k \in K \cup C |->
       IF k = "token" THEN t
       ELSE IF k = "username" THEN u
       ELSE IF k = "userID" THEN UserID(u)
       ELSE IF k = MarkerKey THEN m
       ELSE IF k \in CounterKeys THEN "0"
       ELSE "dark"] :
     K \in SUBSET (SessionKeys \cup {MarkerKey} \cup UnrelatedKeys),
     C \in {{}, CounterKeys},
     t \in TokenStrings, u \in StoredUsers, m \in {"true", "false"} }
SessionContents ==
  { EmptyStorage, [k \in {"token"} \cup UnrelatedKeys |->
                     IF k = "token" THEN MalformedToken ELSE "dark"] }

InitAny ==
  /\ localStorage \in LocalContents
  /\ sessionStorage \in SessionContents
  /\ now = 0
  /\ inflight = [k \in RequestKinds |-> 0]
  /\ loggedIn = isLoggedIn(localStorage, now)
  /\ last = [op |-> "load", ret |-> JSNull, outcome |-> "none", tok |-> Null,
             fetched |-> FALSE, cleared |-> FALSE, afterLogout |-> FALSE]
  /\ route = "/"
  /\ isAuthenticated = JSNull
  /\ mounted = FALSE
  /\ todos = <<>>
  /\ requests = {}
  /\ displayed = <<>>
  /\ pass = NoPass
  /\ error = ""

\* ---------------------------------------------------------------- actions
\* The wall clock advances.
Tick ==
  /\ now < MaxTime
  /\ now' = now + 1
  /\ last' = Step("tick", JSNull, "none", Null, FALSE, FALSE)
  /\ UNCHANGED <<localStorage, sessionStorage, inflight, loggedIn>>
  /\ UNCHANGED <<route, pageVars>>

\* isTokenExpired applied to a token value.
IsTokenExpiredCall(t) ==
  /\ last' = Step("isTokenExpired",
                  IF isTokenExpired(t, now) THEN JSTrue ELSE JSFalse,
                  "none", t, FALSE, FALSE)
  /\ UNCHANGED <<localStorage, sessionStorage, now, inflight, loggedIn>>
  /\ UNCHANGED <<route, pageVars>>

\* The Login component's storage listener and its 1 s interval:
\* setLoggedIn(isLoggedIn()).
IsLoggedInCall ==
  /\ loggedIn' = isLoggedIn(localStorage, now)
  /\ last' = Step("isLoggedIn", isLoggedIn(localStorage, now), "none",
                  getToken(localStorage), FALSE, FALSE)
  /\ UNCHANGED <<localStorage, sessionStorage, now, inflight>>
  /\ UNCHANGED <<route, pageVars>>

\* isValidToken whose local check tests only that a token is stored.
IsValidTokenCall_NoExpiryCheck ==
  LET token == getToken(localStorage) IN
  /\ IF ~Truthy(token)
     THEN /\ last' = Step("isValidToken", JSFalse, "none", token, FALSE, FALSE)
          /\ UNCHANGED inflight
     ELSE /\ Total(inflight) < MaxInFlight
          /\ inflight' = Issue(inflight, "validate")
          /\ last' = Step("isValidToken", Pending, "none", token, TRUE, FALSE)
  /\ UNCHANGED <<localStorage, sessionStorage, now, loggedIn>>
  /\ UNCHANGED <<route, pageVars>>

\* ProtectedRoute's validateAuth calls isValidToken: the local check, then
\* the fetch of /api/todos, at which the call suspends.
IsValidTokenCall ==
  LET token == getToken(localStorage) IN
  /\ IF ~Truthy(token) \/ isTokenExpired(token, now)
     THEN /\ last' = Step("isValidToken", JSFalse, "none", token, FALSE, FALSE)
          /\ UNCHANGED inflight
     ELSE /\ Total(inflight) < MaxInFlight
          /\ inflight' = Issue(inflight, "validate")
          /\ last' = Step("isValidToken", Pending, "none", token, TRUE, FALSE)
  /\ UNCHANGED <<localStorage, sessionStorage, now, loggedIn>>
  /\ UNCHANGED <<route, pageVars>>

\* The fetch of isValidToken settles: response.ok ("ok"), a response that
\* is not ok ("rejected"), or the fetch rejects ("error").
Outcomes == {"ok", "rejected", "error"}

\* isValidToken whose catch block returns false without the cleanup.
IsValidTokenResponse_CatchKeeps(outcome) ==
  /\ inflight["validate"] > 0
  /\ inflight' = Settle(inflight, "validate")
  /\ IF outcome = "rejected"
     THEN /\ localStorage' = clearAllAuthData(localStorage, sessionStorage).ls
          /\ sessionStorage' = clearAllAuthData(localStorage, sessionStorage).ss
          /\ last' = Step("isValidTokenResponse", JSFalse, outcome, Null,
                          FALSE, TRUE)
     ELSE /\ last' = Step("isValidTokenResponse",
                          IF outcome = "ok" THEN JSTrue ELSE JSFalse,
                          outcome, Null, FALSE, FALSE)
          /\ UNCHANGED <<localStorage, sessionStorage>>
  /\ UNCHANGED <<now, loggedIn>>
  /\ UNCHANGED <<route, pageVars>>

\* isValidToken whose failure paths run logout() in place of
\* clearAllAuthData().
IsValidTokenResponse_Logout(outcome) ==
  /\ inflight["validate"] > 0
  /\ inflight' = Settle(inflight, "validate")
  /\ IF outcome = "ok"
     THEN /\ last' = Step("isValidTokenResponse", JSTrue, outcome, Null,
                          FALSE, FALSE)
          /\ UNCHANGED <<localStorage, sessionStorage>>
     ELSE /\ localStorage' = logout(localStorage)
          /\ last' = Step("isValidTokenResponse", JSFalse, outcome, Null,
                          FALSE, FALSE)
          /\ UNCHANGED sessionStorage
  /\ UNCHANGED <<now, loggedIn>>
  /\ UNCHANGED <<route, pageVars>>

\* isValidToken that returns true for any response, without response.ok.
IsValidTokenResponse_AnyResponse(outcome) ==
  /\ inflight["validate"] > 0
  /\ inflight' = Settle(inflight, "validate")
  /\ IF outcome \in {"ok", "rejected"}
     THEN /\ last' = Step("isValidTokenResponse", JSTrue, outcome, Null,
                          FALSE, FALSE)
          /\ UNCHANGED <<localStorage, sessionStorage>>
     ELSE /\ localStorage' = clearAllAuthData(localStorage, sessionStorage).ls
          /\ sessionStorage' = clearAllAuthData(localStorage, sessionStorage).ss
          /\ last' = Step("isValidTokenResponse", JSFalse, outcome, Null,
                          FALSE, TRUE)
  /\ UNCHANGED <<now, loggedIn>>
  /\ UNCHANGED <<route, pageVars>>

IsValidTokenResponse(outcome) ==
  /\ inflight["validate"] > 0
  /\ inflight' = Settle(inflight, "validate")
  /\ IF outcome = "ok"
     THEN /\ last' = Step("isValidTokenResponse", JSTrue, outcome, Null,
                          FALSE, FALSE)
          /\ UNCHANGED <<localStorage, sessionStorage>>
     ELSE /\ localStorage' = clearAllAuthData(localStorage, sessionStorage).ls
          /\ sessionStorage' = clearAllAuthData(localStorage, sessionStorage).ss
          /\ last' = Step("isValidTokenResponse", JSFalse, outcome, Null,
                          FALSE, TRUE)
  /\ UNCHANGED <<now, loggedIn>>
  /\ UNCHANGED <<route, pageVars>>

\* LoginPage.handleSubmit up to its await of the login fetch.
LoginSubmit ==
  /\ Total(inflight) < MaxInFlight
  /\ inflight' = Issue(inflight, "login")
  /\ last' = Step("loginSubmit", Pending, "none", Null, TRUE, FALSE)
  /\ UNCHANGED <<localStorage, sessionStorage, now, loggedIn>>
  /\ UNCHANGED <<route, pageVars>>

\* The access_token field of a login response: missing, or a token.
AccessTokens == {Undefined} \cup {Jwt(e) : e \in 0..MaxTime}

\* LoginPage.handleSubmit from the login response on: data.username,
\* data.userID and data.access_token are the fields of the parsed body;
\* "error" is a rejected fetch or a body that does not parse.
LoginResponse(outcome, user, access_token) ==
  /\ inflight["login"] > 0
  /\ inflight' = Settle(inflight, "login")
  /\ IF outcome = "ok"
     THEN LET l1 == setItem(localStorage, "loggedIn", "true")
              l2 == setItem(l1, "username", user)
              l3 == setItem(l2, "userID", UserID(user))
          IN localStorage' = IF Truthy(access_token)
                             THEN setItem(l3, "token", access_token)
                             ELSE l3
     ELSE UNCHANGED localStorage
  /\ IF outcome = "ok" THEN Navigate("/todos") ELSE UNCHANGED <<route, pageVars>>
  /\ last' = Step("loginResponse", JSNull, outcome, Null, FALSE, FALSE)
  /\ UNCHANGED <<sessionStorage, now, loggedIn>>

\* handleLogout without its navigate("/login").
HandleLogout_NoNavigate ==
  /\ loggedIn = JSTrue
  /\ localStorage' = logout(localStorage)
  /\ loggedIn' = JSFalse
  /\ last' = Step("logout", JSNull,
                  IF SessionAbsent(localStorage) THEN "absent" ELSE "present",
                  Null, FALSE, FALSE)
  /\ UNCHANGED <<sessionStorage, now, inflight, route, pageVars>>

\* The Login component's handleLoginClick: when its loggedIn state is
\* truthy, handleLogout runs logout(), setLoggedIn(false) and
\* navigate("/login").
HandleLogout ==
  /\ loggedIn = JSTrue
  /\ localStorage' = logout(localStorage)
  /\ loggedIn' = JSFalse
  /\ Navigate("/login")
  /\ last' = Step("logout", JSNull,
                  IF SessionAbsent(localStorage) THEN "absent" ELSE "present",
                  Null, FALSE, FALSE)
  /\ UNCHANGED <<sessionStorage, now, inflight>>

\* ProfilePage.deleteAccount up to its await of the delete fetch.
DeleteAccountSubmit ==
  /\ Total(inflight) < MaxInFlight
  /\ inflight' = Issue(inflight, "delete")
  /\ last' = Step("deleteAccountSubmit", Pending, "none", Null, TRUE, FALSE)
  /\ UNCHANGED <<localStorage, sessionStorage, now, loggedIn>>
  /\ UNCHANGED <<route, pageVars>>

\* deleteAccount that runs clearAllAuthData() on any response, ok or not.
DeleteAccountResponse_ClearsOnReject(outcome) ==
  /\ inflight["delete"] > 0
  /\ inflight' = Settle(inflight, "delete")
  /\ IF outcome \in {"ok", "rejected"}
     THEN /\ localStorage' = clearAllAuthData(localStorage, sessionStorage).ls
          /\ sessionStorage' = clearAllAuthData(localStorage, sessionStorage).ss
          /\ IF outcome = "ok" THEN Navigate("/")
                               ELSE UNCHANGED <<route, pageVars>>
          /\ last' = Step("deleteAccountResponse", JSNull, outcome, Null,
                          FALSE, TRUE)
     ELSE /\ last' = Step("deleteAccountResponse", JSNull, outcome, Null,
                          FALSE, FALSE)
          /\ UNCHANGED <<localStorage, sessionStorage, route, pageVars>>
  /\ UNCHANGED <<now, loggedIn>>

\* ProfilePage.deleteAccount from the response on: clearAllAuthData() when
\* response.ok; a rejection or a failed fetch ends in the catch.
DeleteAccountResponse(outcome) ==
  /\ inflight["delete"] > 0
  /\ inflight' = Settle(inflight, "delete")
  /\ IF outcome = "ok"
     THEN /\ localStorage' = clearAllAuthData(localStorage, sessionStorage).ls
          /\ sessionStorage' = clearAllAuthData(localStorage, sessionStorage).ss
          /\ Navigate("/")
          /\ last' = Step("deleteAccountResponse", JSNull, outcome, Null,
                          FALSE, TRUE)
     ELSE /\ last' = Step("deleteAccountResponse", JSNull, outcome, Null,
                          FALSE, FALSE)
          /\ UNCHANGED <<localStorage, sessionStorage, route, pageVars>>
  /\ UNCHANGED <<now, loggedIn>>

\* ------------------------------------------------------------------- Next
Next ==
  \/ Tick
  \/ \E t \in TokenStrings \cup {Null} : IsTokenExpiredCall(t)
  \/ IsLoggedInCall
  \/ IsValidTokenCall
  \/ \E outcome \in Outcomes : IsValidTokenResponse(outcome)
  \/ LoginSubmit
  \/ \E outcome \in Outcomes, user \in Users, access_token \in AccessTokens :
       LoginResponse(outcome, user, access_token)
  \/ HandleLogout
  \/ DeleteAccountSubmit
  \/ \E outcome \in Outcomes : DeleteAccountResponse(outcome)

\* The application from a first visit.
Spec == Init /\ [][Next]_vars

\* The application from a page load over arbitrary stored contents.
SpecAny == InitAny /\ [][Next]_vars

\* --------------------------------------------------------------- TodoPage
\* The longest todo list handed to the classifier, the comparisons one sort
\* of it can make, and the todos one account holds while the whole
\* application runs.
MaxTodos == 3
MaxComparisons == (MaxTodos * (MaxTodos - 1)) \div 2
MaxStored == 1

\* The requests TodoPage awaits at once.
MaxAwaited == 1

\* A todo record: id, due_date (an instant) and completed. The field
\* completed holds the truthiness of todo.completed, and flag tells whether
\* the record has the property at all: a record without it reads undefined.
TodoIds == 1..MaxTodos
DueDates == 0..(MaxTime + 1)
Todo(i, d, c) == [id |-> i, due_date |-> d, completed |-> c, flag |-> TRUE]
Flagless(i, d) ==
  [id |-> i, due_date |-> d, completed |-> FALSE, flag |-> FALSE]

\* a.completed !== b.completed, over true, false and undefined.
completedDiffers(a, b) == a.completed # b.completed \/ a.flag # b.flag

\* The arrays of at most m records GET /api/todos answers with.
Arrays(m) ==
  UNION { { [i \in 1..n |-> Todo(i, f[i][1], f[i][2])] :
              f \in [1..n -> DueDates \X BOOLEAN] } : n \in 0..m }
TodoArrays == Arrays(MaxTodos)
StoredArrays == Arrays(MaxStored)

\* The arrays in which any record may come without the property completed,
\* of at most MaxFlagless records.
MaxFlagless == 2
FlaglessArrays ==
  UNION { { [i \in 1..n |->
               IF f[i][2] = "undefined" THEN Flagless(i, f[i][1])
               ELSE Todo(i, f[i][1], f[i][2] = "true")] :
              f \in [1..n -> DueDates \X {"true", "false", "undefined"}] } :
          n \in 0..MaxFlagless }

\* One iteration of the count loop whose three tests are independent ifs.
CountStep_Independent(acc, todo, clock) ==
  LET a1 == IF todo.due_date < clock
            THEN [acc EXCEPT !.overdue = @ + 1] ELSE acc
      a2 == IF todo.completed
            THEN [a1 EXCEPT !.completed = @ + 1] ELSE a1
  IN IF ~todo.completed THEN [a2 EXCEPT !.incomplete = @ + 1] ELSE a2

\* One iteration of the count loop whose overdue test is not strict.
CountStep_NotStrict(acc, todo, clock) ==
  IF todo.due_date <= clock /\ ~todo.completed
  THEN [acc EXCEPT !.overdue = @ + 1]
  ELSE IF todo.completed
       THEN [acc EXCEPT !.completed = @ + 1]
       ELSE [acc EXCEPT !.incomplete = @ + 1]

\* One iteration of the count loop whose overdue test ignores completed.
CountStep_DueOnly(acc, todo, clock) ==
  IF todo.due_date < clock
  THEN [acc EXCEPT !.overdue = @ + 1]
  ELSE IF todo.completed
       THEN [acc EXCEPT !.completed = @ + 1]
       ELSE [acc EXCEPT !.incomplete = @ + 1]

\* One iteration of the count loop of the counts effect.
CountStep(acc, todo, clock) ==
  IF todo.due_date < clock /\ ~todo.completed
  THEN [acc EXCEPT !.overdue = @ + 1]
  ELSE IF todo.completed
       THEN [acc EXCEPT !.completed = @ + 1]
       ELSE [acc EXCEPT !.incomplete = @ + 1]

\* The count loop over list from item i on, all items against one instant.
RECURSIVE CountFrom(_, _, _, _)
CountFrom(list, i, acc, clock) ==
  IF i > Len(list) THEN acc
  ELSE CountFrom(list, i + 1, CountStep(acc, list[i], clock), clock)

countTodos(list, clock) == CountFrom(list, 1, NoPass.counts, clock)

\* The counts effect storing the completed count under the incomplete key
\* and the incomplete count under the completed key.
WriteCounts_Swapped(l, c) ==
  LET l1 == setItem(l, "numCompletedTodos", ToString(c.incomplete))
      l2 == setItem(l1, "numIncompleteTodos", ToString(c.completed))
  IN setItem(l2, "numOverdueTodos", ToString(c.overdue))

\* The three setItem calls that end the counts effect; a number is stored
\* as its decimal string.
WriteCounts(l, c) ==
  LET l1 == setItem(l, "numCompletedTodos", ToString(c.completed))
      l2 == setItem(l1, "numIncompleteTodos", ToString(c.incomplete))
  IN setItem(l2, "numOverdueTodos", ToString(c.overdue))

\* The comparator whose last key never reports a tie.
comparator_TiesAfter(a, b, clock) ==
  LET aOverdue == ~a.completed /\ a.due_date < clock
      bOverdue == ~b.completed /\ b.due_date < clock
  IN IF aOverdue # bOverdue THEN (IF aOverdue THEN -1 ELSE 1)
     ELSE IF completedDiffers(a, b) THEN (IF a.completed THEN 1 ELSE -1)
     ELSE IF a.due_date < b.due_date THEN -1 ELSE 1

\* The comparator whose second key puts completed items first.
comparator_CompletedFirst(a, b, clock) ==
  LET aOverdue == ~a.completed /\ a.due_date < clock
      bOverdue == ~b.completed /\ b.due_date < clock
  IN IF aOverdue # bOverdue THEN (IF aOverdue THEN -1 ELSE 1)
     ELSE IF completedDiffers(a, b) THEN (IF a.completed THEN -1 ELSE 1)
     ELSE a.due_date - b.due_date

\* The sort comparator; clock is the new Date() this call of it sampled.
comparator(a, b, clock) ==
  LET aOverdue == ~a.completed /\ a.due_date < clock
      bOverdue == ~b.completed /\ b.due_date < clock
  IN IF aOverdue # bOverdue THEN (IF aOverdue THEN -1 ELSE 1)
     ELSE IF completedDiffers(a, b) THEN (IF a.completed THEN 1 ELSE -1)
     ELSE a.due_date - b.due_date

\* The instant the n-th comparator call of a sort samples, when the clock
\* moves from t0 to t1 just before call j.
ClockAt(n, j, t0, t1) == IF n < j THEN t0 ELSE t1

\* Array.prototype.sort is stable and, on short arrays, an insertion sort:
\* x is inserted into the sorted s, passing every item that sorts after it.
\* n counts the comparator calls made so far.
RECURSIVE InsertFrom(_, _, _, _, _, _, _)
InsertFrom(s, x, k, n, j, t0, t1) ==
  IF k = 0 THEN [seq |-> <<x>> \o s, n |-> n]
  ELSE IF comparator(s[k], x, ClockAt(n, j, t0, t1)) > 0
       THEN InsertFrom(s, x, k - 1, n + 1, j, t0, t1)
       ELSE [seq |-> SubSeq(s, 1, k) \o <<x>> \o SubSeq(s, k + 1, Len(s)),
             n |-> n + 1]

RECURSIVE SortFrom(_, _, _, _, _, _, _)
SortFrom(list, i, acc, n, j, t0, t1) ==
  IF i > Len(list) THEN [seq |-> acc, n |-> n]
  ELSE LET r == InsertFrom(acc, list[i], Len(acc), n, j, t0, t1)
       IN SortFrom(list, i + 1, r.seq, r.n, j, t0, t1)

\* todos.slice().sort(comparator): the order, and the instants sampled.
sortTodos(list, j, t0, t1) ==
  LET r == SortFrom(list, 1, <<>>, 0, j, t0, t1)
  IN [seq |-> r.seq,
      samples |-> {ClockAt(n, j, t0, t1) : n \in 0..(r.n - 1)}]

\* The clock during a step: it stays, or it moves on by one; and the
\* comparator call before which it moves.
Later(t) == IF t < MaxTime THEN {t, t + 1} ELSE {t}
Switches(t0, t1) == IF t1 = t0 THEN {0} ELSE 0..MaxComparisons

\* A render of TodoPage: the list is sorted for display.
Render(list, j, t1) ==
  /\ displayed' = sortTodos(list, j, now, t1).seq
  /\ now' = t1

\* setTodos(list): the render it causes, then the counts effect, which
\* samples the clock once and stores the three counters.
SetTodos(list) ==
  \E t1 \in Later(now) : \E j \in Switches(now, t1) :
    /\ todos' = list
    /\ Render(list, j, t1)
    /\ pass' = [sort |-> sortTodos(list, j, now, t1).samples,
                count |-> {t1},
                counts |-> countTodos(list, t1)]
    /\ localStorage' = WriteCounts(localStorage, countTodos(list, t1))

\* A state change of TodoPage other than setTodos: the render it causes.
Rerender ==
  \E t1 \in Later(now) : \E j \in Switches(now, t1) :
    /\ Render(todos, j, t1)
    /\ pass' = [pass EXCEPT !.sort = sortTodos(todos, j, now, t1).samples]
    /\ UNCHANGED <<todos, localStorage>>

\* A request of TodoPage awaiting its response.
Req(k, i, d, s) == [kind |-> k, id |-> i, due_date |-> d, status |-> s]
Awaiting(k) == {q \in requests : q.kind = k}
CanRequest ==
  /\ Total(inflight) + Cardinality(requests) < MaxInFlight
  /\ Cardinality(requests) < MaxAwaited

\* The arrays a response to fetchTodos can carry: none while no fetchTodos
\* awaits one.
Answers(arrays) == IF Awaiting("fetch") = {} THEN {} ELSE arrays

\* The locations whose element is TodoPage inside ProtectedRoute, and the
\* locations of the navbar's links that are followed.
TodoRoutes == {"/home", "/profile"}
Links == {"/", "/profile", "/signup"}

\* A click on a link of the navbar or of a page.
FollowLink(r) ==
  /\ r # route
  /\ Navigate(r)
  /\ last' = Step("link", JSNull, "none", Null, FALSE, FALSE)
  /\ UNCHANGED <<localStorage, sessionStorage, now, inflight, loggedIn>>

\* ProtectedRoute's effect: validateAuth up to the await inside isValidToken.
\* A token that fails the local test resolves false without a request, and
\* the render that follows is <Navigate to="/login" replace />.
ValidateAuth ==
  LET token == getToken(localStorage) IN
  /\ route \in TodoRoutes
  /\ isAuthenticated = JSNull
  /\ IF ~Truthy(token) \/ isTokenExpired(token, now)
     THEN /\ Navigate("/login")
          /\ last' = Step("validateAuth", JSFalse, "none", token, FALSE, FALSE)
          /\ UNCHANGED inflight
     ELSE /\ Total(inflight) + Cardinality(requests) < MaxInFlight
          /\ inflight' = Issue(inflight, "guard")
          /\ isAuthenticated' = Pending
          /\ last' = Step("validateAuth", Pending, "none", token, TRUE, FALSE)
          /\ UNCHANGED <<route, mounted, todos, requests, displayed, pass,
                         error>>
  /\ UNCHANGED <<localStorage, sessionStorage, now, loggedIn>>

\* validateAuth that sets isAuthenticated to true whatever isValidToken
\* resolved to.
ValidateAuthResponse_AdmitsOnFailure(outcome) ==
  /\ isAuthenticated = Pending
  /\ inflight["guard"] > 0
  /\ inflight' = Settle(inflight, "guard")
  /\ isAuthenticated' = JSTrue
  /\ IF outcome = "ok"
     THEN /\ last' = Step("validateAuthResponse", JSTrue, outcome, Null,
                          FALSE, FALSE)
          /\ UNCHANGED <<localStorage, sessionStorage>>
     ELSE /\ localStorage' = clearAllAuthData(localStorage, sessionStorage).ls
          /\ sessionStorage' = clearAllAuthData(localStorage, sessionStorage).ss
          /\ last' = Step("validateAuthResponse", JSFalse, outcome, Null,
                          FALSE, TRUE)
  /\ UNCHANGED <<route, mounted, todos, requests, displayed, pass, error>>
  /\ UNCHANGED <<now, loggedIn>>

\* validateAuth from the response to isValidToken's request on, in the
\* ProtectedRoute that sent it: true admits the children; false, after
\* clearAllAuthData(), renders the redirect to /login.
ValidateAuthResponse(outcome) ==
  /\ isAuthenticated = Pending
  /\ inflight["guard"] > 0
  /\ inflight' = Settle(inflight, "guard")
  /\ IF outcome = "ok"
     THEN /\ isAuthenticated' = JSTrue
          /\ last' = Step("validateAuthResponse", JSTrue, outcome, Null,
                          FALSE, FALSE)
          /\ UNCHANGED <<localStorage, sessionStorage, route, mounted, todos,
                         requests, displayed, pass, error>>
     ELSE /\ localStorage' = clearAllAuthData(localStorage, sessionStorage).ls
          /\ sessionStorage' = clearAllAuthData(localStorage, sessionStorage).ss
          /\ Navigate("/login")
          /\ last' = Step("validateAuthResponse", JSFalse, outcome, Null,
                          FALSE, TRUE)
  /\ UNCHANGED <<now, loggedIn>>

\* The response to the request of a ProtectedRoute that has been unmounted
\* since: isValidToken runs to its end, the setters of the unmounted
\* component have no effect.
ValidateAuthUnmounted(outcome) ==
  /\ inflight["guard"] > (IF isAuthenticated = Pending THEN 1 ELSE 0)
  /\ inflight' = Settle(inflight, "guard")
  /\ IF outcome = "ok"
     THEN /\ last' = Step("isValidTokenResponse", JSTrue, outcome, Null,
                          FALSE, FALSE)
          /\ UNCHANGED <<localStorage, sessionStorage>>
     ELSE /\ localStorage' = clearAllAuthData(localStorage, sessionStorage).ls
          /\ sessionStorage' = clearAllAuthData(localStorage, sessionStorage).ss
          /\ last' = Step("isValidTokenResponse", JSFalse, outcome, Null,
                          FALSE, TRUE)
  /\ UNCHANGED <<now, loggedIn, route, pageVars>>

\* ProtectedRoute renders its children: TodoPage's first render, the counts
\* effect over the empty list, and fetchTodos up to its await.
MountTodoPage ==
  /\ route \in TodoRoutes
  /\ isAuthenticated = JSTrue
  /\ ~mounted
  /\ CanRequest
  /\ mounted' = TRUE
  /\ SetTodos(<<>>)
  /\ requests' = requests \cup {Req("fetch", 0, 0, FALSE)}
  /\ last' = Step("mountTodoPage", Pending, "none", getToken(localStorage),
                  TRUE, FALSE)
  /\ UNCHANGED <<sessionStorage, inflight, loggedIn, isAuthenticated, route, error>>

\* fetchTodos from the response on: setTodos(data) when response.ok.
FetchTodosResponse(outcome, data) ==
  \E q \in Awaiting("fetch") :
    /\ mounted
    /\ requests' = requests \ {q}
    /\ IF outcome = "ok"
       THEN SetTodos(data)
       ELSE UNCHANGED <<todos, displayed, pass, localStorage, now>>
    /\ last' = Step("fetchTodosResponse", JSNull, outcome, Null, FALSE, FALSE)
    /\ UNCHANGED <<sessionStorage, inflight, loggedIn, isAuthenticated, route, mounted, error>>

\* The due dates a form can hold, as wall-clock readings of the client, and
\* the client's offsets from UTC: new Date(text) reads the text as local
\* time, so the instant of a reading d in a zone at offset tz is d - tz.
DueInputs == 1..(MaxTime + 1)
TzOffsets == {0, 1}
toInstant(d, tz) == d - tz

\* form.dueDate < now.toISOString() compares the wall-clock text of the form
\* with the UTC text of the clock; a text that is a prefix of the other is
\* the smaller one, so a reading equal to the clock's is rejected as well.
dueDateBeforeNow(d, clock) == d <= clock

\* TodoPage.handleSubmit up to its await of the create fetch.
HandleSubmit(dueDate, tz) ==
  /\ mounted
  /\ IF dueDateBeforeNow(dueDate, now)
     THEN /\ error' = "Due date must be in the future"
          /\ UNCHANGED requests
          /\ last' = Step("handleSubmit", JSNull, "none", Null, FALSE, FALSE)
     ELSE /\ CanRequest
          /\ error' = ""
          /\ requests' = requests \cup
               {Req("create", 0, toInstant(dueDate, tz), FALSE)}
          /\ last' = Step("handleSubmit", Pending, "none",
                          getToken(localStorage), TRUE, FALSE)
  /\ Rerender
  /\ UNCHANGED <<sessionStorage, inflight, loggedIn, isAuthenticated, route, mounted>>

\* The record POST /api/create_todo answers with: the payload under an id
\* that no listed todo has, while the account has room for one more.
NewTodos(q) ==
  IF Len(todos) < MaxStored
  THEN {Todo(i, q.due_date, FALSE) :
          i \in (1..MaxStored) \ {todos[n].id : n \in DOMAIN todos}}
  ELSE {}

\* TodoPage.handleSubmit from the create response on.
CreateResponse(outcome) ==
  \E q \in Awaiting("create") :
    /\ mounted
    /\ requests' = requests \ {q}
    /\ IF outcome = "ok"
       THEN \E newTodo \in NewTodos(q) : SetTodos(Append(todos, newTodo))
       ELSE UNCHANGED <<todos, displayed, pass, localStorage, now>>
    /\ last' = Step("createResponse", JSNull, outcome, Null, FALSE, FALSE)
    /\ UNCHANGED <<sessionStorage, inflight, loggedIn, isAuthenticated, route, mounted, error>>

\* handleToggleComplete(todo.id, todo.completed) on a displayed item, up to
\* its await of the update fetch.
HandleToggleComplete(n) ==
  /\ mounted
  /\ n \in DOMAIN displayed
  /\ CanRequest
  /\ requests' = requests \cup
       {Req("toggle", displayed[n].id, 0, displayed[n].completed)}
  /\ last' = Step("handleToggleComplete", Pending, "none",
                  getToken(localStorage), TRUE, FALSE)
  /\ UNCHANGED <<localStorage, sessionStorage, now, inflight, loggedIn,
                 isAuthenticated, route, mounted, todos, displayed, pass,
                 error>>

\* prev.map(todo => todo.id === todoId ? {...todo, completed: !status} : todo)
toggled(prev, todoId, status) ==
  [n \in DOMAIN prev |->
     IF prev[n].id = todoId
     THEN [prev[n] EXCEPT !.completed = ~status, !.flag = TRUE]
     ELSE prev[n]]

\* A toggle handler that answers a failed update by ending the session.
ToggleResponse_LogoutOnFailure(outcome) ==
  \E q \in Awaiting("toggle") :
    /\ mounted
    /\ requests' = requests \ {q}
    /\ IF outcome = "ok"
       THEN SetTodos(toggled(todos, q.id, q.status))
       ELSE /\ localStorage' = logout(localStorage)
            /\ UNCHANGED <<todos, displayed, pass, now>>
    /\ last' = Step("toggleResponse", JSNull, outcome, Null, FALSE, FALSE)
    /\ UNCHANGED <<sessionStorage, inflight, loggedIn, isAuthenticated, route, mounted, error>>

\* handleToggleComplete from the update response on.
ToggleResponse(outcome) ==
  \E q \in Awaiting("toggle") :
    /\ mounted
    /\ requests' = requests \ {q}
    /\ IF outcome = "ok"
       THEN SetTodos(toggled(todos, q.id, q.status))
       ELSE UNCHANGED <<todos, displayed, pass, localStorage, now>>
    /\ last' = Step("toggleResponse", JSNull, outcome, Null, FALSE, FALSE)
    /\ UNCHANGED <<sessionStorage, inflight, loggedIn, isAuthenticated, route, mounted, error>>

\* handleDeleteTodo(todo.id) on a displayed item, up to its await.
HandleDeleteTodo(n) ==
  /\ mounted
  /\ n \in DOMAIN displayed
  /\ CanRequest
  /\ requests' = requests \cup {Req("remove", displayed[n].id, 0, FALSE)}
  /\ last' = Step("handleDeleteTodo", Pending, "none",
                  getToken(localStorage), TRUE, FALSE)
  /\ UNCHANGED <<localStorage, sessionStorage, now, inflight, loggedIn,
                 isAuthenticated, route, mounted, todos, displayed, pass,
                 error>>

\* prev.filter(todo => todo.id !== todoID)
RECURSIVE without(_, _)
without(prev, todoID) ==
  IF prev = <<>> THEN <<>>
  ELSE IF Head(prev).id # todoID
       THEN <<Head(prev)>> \o without(Tail(prev), todoID)
       ELSE without(Tail(prev), todoID)

\* handleDeleteTodo from the delete response on.
DeleteTodoResponse(outcome) ==
  \E q \in Awaiting("remove") :
    /\ mounted
    /\ requests' = requests \ {q}
    /\ IF outcome = "ok"
       THEN SetTodos(without(todos, q.id))
       ELSE UNCHANGED <<todos, displayed, pass, localStorage, now>>
    /\ last' = Step("deleteTodoResponse", JSNull, outcome, Null, FALSE, FALSE)
    /\ UNCHANGED <<sessionStorage, inflight, loggedIn, isAuthenticated, route, mounted, error>>

\* handleUpdate(todo.id) on a displayed item with the edit form's due date,
\* up to its await of the update fetch.
HandleUpdate(n, dueDate, tz) ==
  /\ mounted
  /\ n \in DOMAIN displayed
  /\ CanRequest
  /\ requests' = requests \cup
       {Req("update", displayed[n].id, toInstant(dueDate, tz), FALSE)}
  /\ last' = Step("handleUpdate", Pending, "none", getToken(localStorage),
                  TRUE, FALSE)
  /\ UNCHANGED <<localStorage, sessionStorage, now, inflight, loggedIn,
                 isAuthenticated, route, mounted, todos, displayed, pass,
                 error>>

\* The record PUT /api/update_todo answers with: the todo under its id,
\* with the due date sent and the completion flag the server holds.
UpdatedTodos(q) == {Todo(q.id, q.due_date, c) : c \in BOOLEAN}

\* prev.map(todo => todo.id === todoID ? updatedTodo : todo)
replaced(prev, todoID, updatedTodo) ==
  [n \in DOMAIN prev |-> IF prev[n].id = todoID THEN updatedTodo ELSE prev[n]]

\* handleUpdate from the update response on.
UpdateResponse(outcome) ==
  \E q \in Awaiting("update") :
    /\ mounted
    /\ requests' = requests \ {q}
    /\ IF outcome = "ok"
       THEN \E updatedTodo \in UpdatedTodos(q) :
              SetTodos(replaced(todos, q.id, updatedTodo))
       ELSE UNCHANGED <<todos, displayed, pass, localStorage, now>>
    /\ last' = Step("updateResponse", JSNull, outcome, Null, FALSE, FALSE)
    /\ UNCHANGED <<sessionStorage, inflight, loggedIn, isAuthenticated, route, mounted, error>>

\* TodoPage.handleChange: a key typed into the create form, setForm.
HandleChange ==
  /\ mounted
  /\ Rerender
  /\ last' = Step("handleChange", JSNull, "none", Null, FALSE, FALSE)
  /\ UNCHANGED <<sessionStorage, inflight, loggedIn, isAuthenticated, route,
                 mounted, requests, error>>

\* SignUpPage.handleSubmit, past its field checks, up to its await of the
\* signup fetch.
SignUpSubmit ==
  /\ Total(inflight) + Cardinality(requests) < MaxInFlight
  /\ inflight' = Issue(inflight, "signup")
  /\ last' = Step("signUpSubmit", Pending, "none", Null, TRUE, FALSE)
  /\ UNCHANGED <<localStorage, sessionStorage, now, loggedIn, route, pageVars>>

\* SignUpPage.handleSubmit from the signup response on: navigate("/login")
\* when response.ok, an error message otherwise.
SignUpResponse(outcome) ==
  /\ inflight["signup"] > 0
  /\ inflight' = Settle(inflight, "signup")
  /\ IF outcome = "ok" THEN Navigate("/login") ELSE UNCHANGED <<route, pageVars>>
  /\ last' = Step("signUpResponse", JSNull, outcome, Null, FALSE, FALSE)
  /\ UNCHANGED <<localStorage, sessionStorage, now, loggedIn>>

\* The steps of the pages around the session: navigation, TodoPage, signup.
NextPage ==
  \/ \E r \in Links : FollowLink(r)
  \/ ValidateAuth
  \/ \E outcome \in Outcomes : ValidateAuthResponse(outcome)
  \/ \E outcome \in Outcomes : ValidateAuthUnmounted(outcome)
  \/ MountTodoPage
  \/ \E outcome \in Outcomes, data \in Answers(StoredArrays) :
       FetchTodosResponse(outcome, data)
  \/ HandleChange
  \/ \E dueDate \in DueInputs, tz \in TzOffsets : HandleSubmit(dueDate, tz)
  \/ \E outcome \in Outcomes : CreateResponse(outcome)
  \/ \E n \in 1..MaxTodos : HandleToggleComplete(n)
  \/ \E outcome \in Outcomes : ToggleResponse(outcome)
  \/ \E n \in 1..MaxTodos : HandleDeleteTodo(n)
  \/ \E outcome \in Outcomes : DeleteTodoResponse(outcome)
  \/ \E n \in 1..MaxTodos, dueDate \in DueInputs, tz \in TzOffsets :
       HandleUpdate(n, dueDate, tz)
  \/ \E outcome \in Outcomes : UpdateResponse(outcome)
  \/ SignUpSubmit
  \/ \E outcome \in Outcomes : SignUpResponse(outcome)

\* The steps of the session that write state, for one user.
NextSession ==
  \/ Tick
  \/ IsLoggedInCall
  \/ IsValidTokenCall
  \/ \E outcome \in Outcomes : IsValidTokenResponse(outcome)
  \/ LoginSubmit
  \/ \E outcome \in Outcomes, user \in StoredUsers,
        access_token \in AccessTokens :
       LoginResponse(outcome, user, access_token)
  \/ HandleLogout
  \/ DeleteAccountSubmit
  \/ \E outcome \in Outcomes : DeleteAccountResponse(outcome)

NextApp == NextSession \/ NextPage

\* The whole application from a first visit.
SpecApp == Init /\ [][NextApp]_vars

\* A session as a successful login leaves it, on a location of TodoPage.
InitTodoPage ==
  /\ localStorage = [k \in SessionKeys \cup {MarkerKey} |->
                       IF k = "token" THEN Jwt(MaxTime)
                       ELSE IF k = "username" THEN "alice"
                       ELSE IF k = "userID" THEN UserID("alice")
                       ELSE "true"]
  /\ sessionStorage = EmptyStorage
  /\ now = 0
  /\ inflight = [k \in RequestKinds |-> 0]
  /\ loggedIn = isLoggedIn(localStorage, now)
  /\ last = [op |-> "load", ret |-> JSNull, outcome |-> "none", tok |-> Null,
             fetched |-> FALSE, cleared |-> FALSE, afterLogout |-> FALSE]
  /\ route = "/profile"
  /\ isAuthenticated = JSTrue
  /\ mounted = FALSE
  /\ todos = <<>>
  /\ requests = {}
  /\ displayed = <<>>
  /\ pass = NoPass
  /\ error = ""

\* TodoPage, signup and the links, under a session that stays as it is.
NextTodoPage == Tick \/ NextPage

SpecTodoPage == InitTodoPage /\ [][NextTodoPage]_vars

\* ProtectedRoute around TodoPage: the links, the effect, the responses to
\* its validation requests, and the mount of the children.
NextProtectedRoute ==
  \/ Tick
  \/ \E r \in Links : FollowLink(r)
  \/ ValidateAuth
  \/ \E outcome \in Outcomes : ValidateAuthResponse(outcome)
  \/ \E outcome \in Outcomes : ValidateAuthUnmounted(outcome)
  \/ MountTodoPage
  \/ \E outcome \in Outcomes, data \in Answers(StoredArrays) :
       FetchTodosResponse(outcome, data)

\* The effect runs after the render that mounted the component, and every
\* validation request is answered or fails.
SpecProtectedRoute ==
  /\ InitTodoPage
  /\ [][NextProtectedRoute]_vars
  /\ WF_vars(ValidateAuth)
  /\ WF_vars(\E outcome \in Outcomes : ValidateAuthResponse(outcome))
  /\ WF_vars(\E outcome \in Outcomes : ValidateAuthUnmounted(outcome))

\* TodoPage as the classifier of the lists the server answers with.
NextClassify ==
  \/ Tick
  \/ MountTodoPage
  \/ \E outcome \in Outcomes, data \in Answers(TodoArrays) :
       FetchTodosResponse(outcome, data)
  \/ HandleChange

SpecClassify == InitTodoPage /\ [][NextClassify]_vars

\* TodoPage as the classifier of lists whose records may lack completed.
NextFlagless ==
  \/ Tick
  \/ MountTodoPage
  \/ \E outcome \in Outcomes, data \in Answers(FlaglessArrays) :
       FetchTodosResponse(outcome, data)
  \/ HandleChange

SpecFlagless == InitTodoPage /\ [][NextFlagless]_vars

\* ----------------------------------------------------------------- claims

\* C1: once isValidToken has issued its request, a response that is not ok
\* and a failed fetch alike leave localStorage and sessionStorage empty and
\* make the call return false.
C1_FailedValidationClearsAll ==
  (last.op = "isValidTokenResponse" /\ last.outcome # "ok")
    => /\ localStorage = EmptyStorage
       /\ sessionStorage = EmptyStorage
       /\ last.ret = JSFalse

C1_Witness ==
  /\ last.op = "isValidTokenResponse"
  /\ last.outcome = "error"
  /\ last.ret = JSFalse

\* C2: isValidToken returns false and issues no request whenever no token
\* is stored or isTokenExpired is true of the stored token.
C2_LocalFailureNoFetch ==
  (/\ last.op = "isValidToken"
   /\ \/ ~Has(localStorage, "token")
      \/ isTokenExpired(localStorage["token"], now))
    => (last.ret = JSFalse /\ ~last.fetched)

C2_Witness ==
  /\ last.op = "isValidToken"
  /\ Has(localStorage, "token")
  /\ localStorage["token"].kind = "jwt"
  /\ localStorage["token"].exp # NoExp
  /\ localStorage["token"].exp < now
  /\ last.ret = JSFalse

\* C3: isTokenExpired returns true for every token that cannot be decoded
\* and for every token whose payload has no exp claim.
C3_FailClosed ==
  (/\ last.op = "isTokenExpired"
   /\ (jwtDecodeThrows(last.tok) \/ last.tok.exp = NoExp))
    => last.ret = JSTrue

\* C4: isLoggedIn() is true if and only if a token is stored and
\* isTokenExpired is false of it.
C4_LoggedInIff ==
  last.op = "isLoggedIn"
    => ((last.ret = JSTrue)
          <=> (/\ Has(localStorage, "token")
               /\ ~isTokenExpired(localStorage["token"], now)))

C4_Witness ==
  /\ last.op = "isLoggedIn"
  /\ Has(localStorage, "token")
  /\ localStorage["token"].kind = "jwt"
  /\ localStorage["token"].exp # NoExp
  /\ localStorage["token"].exp < now
  /\ last.ret = JSFalse

\* C5: when isLoggedIn or isValidToken finds that isTokenExpired is true of
\* the stored token, token, username, userID and the counters are absent
\* from storage afterwards.
C5_ExpiryDestroysSession ==
  (/\ last.op \in {"isLoggedIn", "isValidToken"}
   /\ last.tok # Null
   /\ isTokenExpired(last.tok, now))
    => SessionAbsent(localStorage)

\* C6: token, username and userID are all present in storage or all absent.
C6_AllOrNothing ==
  \/ \A k \in SessionKeys : Has(localStorage, k)
  \/ \A k \in SessionKeys : ~Has(localStorage, k)

\* C7: right after logout(), token, username, userID and the three counters
\* are absent and loggedIn is present with the value "false".
C7_LogoutRemovesSession ==
  last.op = "logout"
    => /\ SessionAbsent(localStorage)
       /\ Has(localStorage, MarkerKey)
       /\ localStorage[MarkerKey] = "false"

C7_Witness ==
  /\ last.op = "logout"
  /\ SessionAbsent(localStorage)
  /\ Has(localStorage, "theme")

\* C8: logout() leaves every key other than token, username, userID, the
\* three counters and loggedIn as it was, in localStorage and in
\* sessionStorage.
C8_LogoutFrame ==
  [][last'.op = "logout"
       => /\ \A k \in (DOMAIN localStorage \cup DOMAIN localStorage')
                        \ (SessionKeys \cup CounterKeys \cup {MarkerKey}) :
               /\ Has(localStorage, k)
               /\ Has(localStorage', k)
               /\ localStorage'[k] = localStorage[k]
          /\ sessionStorage' = sessionStorage]_vars

C8_Witness ==
  /\ last.op = "logout"
  /\ Has(localStorage, "theme")
  /\ Has(sessionStorage, "token")
  /\ Has(sessionStorage, "theme")

\* C9: after clearAllAuthData() has run, localStorage and sessionStorage
\* hold no key at all.
C9_ClearAllEmpties ==
  last.cleared => (DOMAIN localStorage = {} /\ DOMAIN sessionStorage = {})

C9_Witness ==
  /\ last.cleared
  /\ last.op = "deleteAccountResponse"
  /\ DOMAIN localStorage = {}

\* C10 as stated: the response of an isValidToken request that was in
\* flight when logout completed leaves storage as the logout left it.
C10_LateResponseRedundant ==
  [][(last.op = "logout" /\ last'.op = "isValidTokenResponse")
       => (localStorage' = localStorage /\ sessionStorage' = sessionStorage)]_vars

\* C10 amended: the response of an isValidToken request that was in flight
\* when logout completed leaves token, username, userID and the counters
\* absent; a success response leaves storage as the logout left it, and a
\* failure response empties both stores, the loggedIn marker included.
C10_LateResponseAmended ==
  [][(last.op = "logout" /\ last'.op = "isValidTokenResponse")
       => /\ SessionAbsent(localStorage')
          /\ last'.outcome = "ok"
               => (localStorage' = localStorage
                   /\ sessionStorage' = sessionStorage)
          /\ last'.outcome # "ok"
               => (localStorage' = EmptyStorage
                   /\ sessionStorage' = EmptyStorage)]_vars

C10_Witness ==
  /\ last.op = "isValidTokenResponse"
  /\ last.afterLogout
  /\ last.outcome = "rejected"
  /\ ~Has(localStorage, MarkerKey)

\* C11 as stated: logout() twice is logout() once, clearAllAuthData() twice
\* is clearAllAuthData() once, and a cleanup that finds the keys it clears
\* already absent changes nothing in storage.
C11_CleanupNoOp ==
  [][/\ last'.op = "logout"
          => /\ logout(localStorage') = localStorage'
             /\ SessionAbsent(localStorage) => localStorage' = localStorage
     /\ last'.cleared
          => /\ clearAllAuthData(localStorage', sessionStorage')
                  = [ls |-> localStorage', ss |-> sessionStorage']
             /\ (localStorage = EmptyStorage /\ sessionStorage = EmptyStorage)
                  => (localStorage' = localStorage
                      /\ sessionStorage' = sessionStorage)]_vars

\* C11 amended: logout() twice is logout() once and clearAllAuthData() twice
\* is clearAllAuthData() once; clearAllAuthData() over empty stores changes
\* nothing, and logout() over a store without the six keys it removes
\* changes nothing but the loggedIn marker, which it sets to "false".
C11_CleanupIdempotent ==
  [][/\ last'.op = "logout"
          => /\ logout(localStorage') = localStorage'
             /\ SessionAbsent(localStorage)
                  => /\ \A k \in (DOMAIN localStorage \cup DOMAIN localStorage')
                                   \ {MarkerKey} :
                          /\ Has(localStorage, k)
                          /\ Has(localStorage', k)
                          /\ localStorage'[k] = localStorage[k]
                     /\ Has(localStorage', MarkerKey)
                     /\ localStorage'[MarkerKey] = "false"
     /\ last'.cleared
          => /\ clearAllAuthData(localStorage', sessionStorage')
                  = [ls |-> localStorage', ss |-> sessionStorage']
             /\ (localStorage = EmptyStorage /\ sessionStorage = EmptyStorage)
                  => (localStorage' = localStorage
                      /\ sessionStorage' = sessionStorage)]_vars

C11_Witness ==
  /\ last.op = "logout"
  /\ last.outcome = "absent"
  /\ localStorage = [k \in {MarkerKey} |-> "false"]

\* C13: isTokenExpired, isLoggedIn and isValidToken return a boolean on every
\* path: true, or false on a failure path, never null or another falsy value.
C13_QueriesReturnBooleans ==
  last.op \in {"isTokenExpired", "isLoggedIn", "isValidToken",
               "isValidTokenResponse"}
    => last.ret \in {JSTrue, JSFalse, Pending}

\* C14: for a decodable token with an exp claim, isTokenExpired returns true
\* when exp is earlier than the clock and false when exp is later than it.
C14_ExpiryComparison ==
  (/\ last.op = "isTokenExpired"
   /\ last.tok.kind = "jwt"
   /\ last.tok.exp # NoExp)
    => /\ last.tok.exp < now => last.ret = JSTrue
       /\ last.tok.exp > now => last.ret = JSFalse

C14_Witness ==
  /\ last.op = "isTokenExpired"
  /\ last.tok.kind = "jwt"
  /\ last.tok.exp # NoExp
  /\ last.tok.exp < now
  /\ last.ret = JSTrue

\* C15: with a stored token that passes the local check, isValidToken issues
\* exactly one request; it returns true if and only if the response is ok,
\* and when it returns true storage is left as it was.
C15_ValidationRequest ==
  [][/\ (/\ last'.op = "isValidToken"
         /\ Truthy(getToken(localStorage))
         /\ ~isTokenExpired(getToken(localStorage), now))
          => /\ last'.fetched
             /\ inflight' = Issue(inflight, "validate")
     /\ last'.op = "isValidTokenResponse"
          => /\ (last'.ret = JSTrue) <=> (last'.outcome = "ok")
             /\ last'.ret \in {JSTrue, JSFalse}
             /\ last'.ret = JSTrue
                  => (localStorage' = localStorage
                      /\ sessionStorage' = sessionStorage)]_vars

C15_Witness ==
  /\ last.op = "isValidTokenResponse"
  /\ last.outcome = "ok"
  /\ last.ret = JSTrue
  /\ Truthy(getToken(localStorage))

PageOps ==
  {"link", "mountTodoPage", "fetchTodosResponse", "handleChange",
   "handleSubmit", "createResponse", "handleToggleComplete",
   "toggleResponse", "handleDeleteTodo", "deleteTodoResponse",
   "handleUpdate", "updateResponse", "signUpSubmit", "signUpResponse"}

\* C12: the token key is written only by a successful login response; a
\* stored token is removed only by logout, by a failed validation or by a
\* successful account deletion; no step of the todo page (fetch, create,
\* toggle, edit, delete), of signup or of navigation writes or removes it.
C12_TokenStateMachine ==
  [][ /\ (Has(localStorage', "token")
           /\ getToken(localStorage') # getToken(localStorage))
        => (last'.op = "loginResponse" /\ last'.outcome = "ok")
      /\ (Has(localStorage, "token") /\ ~Has(localStorage', "token"))
        => \/ last'.op = "logout"
           \/ last'.op = "isValidTokenResponse" /\ last'.outcome # "ok"
           \/ last'.op = "validateAuthResponse" /\ last'.outcome # "ok"
           \/ last'.op = "deleteAccountResponse" /\ last'.outcome = "ok"
      /\ last'.op \in PageOps
        => getToken(localStorage') = getToken(localStorage) ]_vars

\* A rejected toggle of a listed todo has left the stored token in place.
C12_Witness ==
  /\ last.op = "toggleResponse"
  /\ last.outcome = "rejected"
  /\ mounted
  /\ Len(todos) > 0
  /\ Truthy(getToken(localStorage))

\* The bucket of a todo at an instant: 0 overdue (not completed and due
\* before the instant), 1 otherwise not completed, 2 completed.
Bucket(todo, clock) ==
  IF ~todo.completed /\ todo.due_date < clock THEN 0
  ELSE IF ~todo.completed THEN 1
  ELSE 2

C18_CountsPartition ==
  /\ pass.counts.completed + pass.counts.incomplete + pass.counts.overdue
       = Len(todos)
  /\ \A i \in DOMAIN todos : \A clock \in 0..MaxTime :
       LET c == CountStep(NoPass.counts, todos[i], clock)
       IN c.completed + c.incomplete + c.overdue = 1

\* A count pass over a list with one item of each status.
C18_Witness ==
  /\ last.op = "fetchTodosResponse"
  /\ Len(todos) = 3
  /\ pass.counts = [completed |-> 1, incomplete |-> 1, overdue |-> 1]

\* C19: every completed item is counted as Completed, whatever its due
\* date, and no completed item is displayed before a not-completed one.
C19_CompletedNeverOverdue ==
  /\ pass.counts.completed
       = Cardinality({i \in DOMAIN todos : todos[i].completed})
  /\ \A m, n \in DOMAIN displayed :
       (m < n /\ displayed[m].completed) => displayed[n].completed

\* A completed item past its due date was counted and sorted, next to a
\* not-completed item that is not yet due.
C19_Witness ==
  /\ last.op = "fetchTodosResponse"
  /\ pass.count = {now}
  /\ \E i, k \in DOMAIN todos :
       /\ todos[i].completed
       /\ todos[i].due_date < now
       /\ ~todos[k].completed
       /\ todos[k].due_date >= now
       /\ i < k
  /\ pass.counts.overdue = 0
  /\ pass.counts.completed > 0

\* C20: one count pass, and one sort of the list, samples the clock once:
\* all its items are classified against one instant.
C20_SingleSample ==
  /\ Cardinality(pass.count) <= 1
  /\ Cardinality(pass.sort) <= 1

\* The list with completed: false in every record that lacks the property.
asIncomplete(list) ==
  [i \in DOMAIN list |-> Todo(list[i].id, list[i].due_date, list[i].completed)]

\* The ids of a list, in its order.
Ids(list) == [i \in DOMAIN list |-> list[i].id]

\* C21: a todo without a completion flag is counted and displayed exactly
\* as if completed were false: the counts are those of the list with the
\* flag set to false, and so is the displayed order.
C21_FlaglessAsIncomplete ==
  mounted =>
    /\ \A t \in pass.count : pass.counts = countTodos(asIncomplete(todos), t)
    /\ Ids(displayed) = Ids(sortTodos(asIncomplete(todos), 0, now, now).seq)

\* The place of the todo with the given id in a list.
Pos(list, id) == CHOOSE n \in DOMAIN list : list[n].id = id

\* C22: sorting the displayed list again, against an instant its sort
\* used, gives the same order; and two items that tie on all three keys are
\* displayed in the order the list holds them.
C22_SortIdempotentStable ==
  /\ \A clock \in pass.sort :
       sortTodos(displayed, 0, clock, clock).seq = displayed
  /\ \A i, k \in DOMAIN todos :
       (i < k /\ \A clock \in pass.sort :
                   comparator(todos[i], todos[k], clock) = 0)
         => Pos(displayed, todos[i].id) < Pos(displayed, todos[k].id)

\* A list of three with a tie, which the sort had to reorder.
C22_Witness ==
  /\ last.op = "fetchTodosResponse"
  /\ Len(todos) = 3
  /\ displayed # todos
  /\ pass.sort # {}
  /\ \E i, k \in DOMAIN todos :
       /\ i < k
       /\ \A clock \in pass.sort : comparator(todos[i], todos[k], clock) = 0
       /\ Pos(displayed, todos[i].id) + 1 = Pos(displayed, todos[k].id)

\* C23: a not-completed todo due exactly at the reference instant is
\* Incomplete, not Overdue: the count pass counts as overdue only the
\* not-completed items due strictly before its instant, and the sort
\* compares an item due at its instant with the other items that are not
\* overdue by due date, and displays it after the overdue ones.
C23_BoundaryIsIncomplete ==
  /\ \A t \in pass.count :
       /\ pass.counts.overdue =
            Cardinality({i \in DOMAIN todos :
                           ~todos[i].completed /\ todos[i].due_date < t})
       /\ pass.counts.incomplete =
            Cardinality({i \in DOMAIN todos :
                           ~todos[i].completed /\ todos[i].due_date >= t})
  /\ \A i, k \in DOMAIN todos : \A clock \in pass.sort :
       (~todos[i].completed /\ todos[i].due_date = clock /\ ~todos[k].completed)
         => /\ todos[k].due_date >= clock
                => comparator(todos[i], todos[k], clock)
                     = todos[i].due_date - todos[k].due_date
            /\ todos[k].due_date < clock
                => /\ comparator(todos[i], todos[k], clock) = 1
                   /\ Pos(displayed, todos[k].id) < Pos(displayed, todos[i].id)

\* A not-completed item due at the very instant of the count pass and of
\* the sort, next to an item that is not due yet.
C23_Witness ==
  /\ last.op = "fetchTodosResponse"
  /\ pass.count = {now}
  /\ pass.sort = {now}
  /\ pass.counts.overdue = 0
  /\ pass.counts.incomplete = 2
  /\ \E i, k \in DOMAIN todos :
       /\ ~todos[i].completed /\ todos[i].due_date = now
       /\ ~todos[k].completed /\ todos[k].due_date > now + 1

\* The steps that end in setTodos: the initial fetch, create, toggle, edit
\* and delete, each on a response that is ok.
ListChangeOps ==
  {"fetchTodosResponse", "createResponse", "toggleResponse",
   "updateResponse", "deleteTodoResponse"}

\* The three stored counters are the counts of list at instant t.
Described(l, list, t) ==
  /\ CounterKeys \subseteq DOMAIN l
  /\ l["numCompletedTodos"] = ToString(countTodos(list, t).completed)
  /\ l["numIncompleteTodos"] = ToString(countTodos(list, t).incomplete)
  /\ l["numOverdueTodos"] = ToString(countTodos(list, t).overdue)

\* C24: every step that changes the list of the mounted TodoPage (initial
\* fetch, create, toggle, edit, delete) rewrites the three stored counters
\* to the classification counts of the new list at that instant.
C24_CountersFollowList ==
  [][ (\/ mounted /\ mounted' /\ todos' # todos
       \/ last'.op \in ListChangeOps /\ last'.outcome = "ok")
        => /\ last'.op \in ListChangeOps
           /\ Described(localStorage', todos', now') ]_vars

\* A toggle has completed the only todo and the counters say so.
C24_Witness ==
  /\ last.op = "toggleResponse"
  /\ last.outcome = "ok"
  /\ Len(todos) = 1
  /\ todos[1].completed
  /\ Has(localStorage, "numCompletedTodos")
  /\ localStorage["numCompletedTodos"] = "1"
  /\ localStorage["numIncompleteTodos"] = "0"

\* C25: the create handler sends the create request only when the due date
\* entered is later than the current instant, in any client timezone, and
\* otherwise sends nothing, sets the error "Due date must be in the future"
\* and leaves the list as it is.
C25_FutureDueDateOnly ==
  [][ last'.op = "handleSubmit"
        => IF last'.fetched
           THEN \A q \in requests' \ requests :
                  q.kind = "create" /\ q.due_date > now
           ELSE /\ requests' = requests
                /\ error' = "Due date must be in the future"
                /\ todos' = todos ]_vars

\* C26: a delete-account response that is ok erases both stores and moves
\* to the root route; a rejection or a failed request leaves both stores
\* and the route as they were.
C26_DeletionClearsOnSuccess ==
  [][ last'.op = "deleteAccountResponse"
        => IF last'.outcome = "ok"
           THEN /\ localStorage' = EmptyStorage
                /\ sessionStorage' = EmptyStorage
                /\ route' = "/"
           ELSE /\ localStorage' = localStorage
                /\ sessionStorage' = sessionStorage
                /\ route' = route ]_vars

\* A rejected deletion has left a stored session where it was.
C26_Witness ==
  /\ last.op = "deleteAccountResponse"
  /\ last.outcome = "rejected"
  /\ Truthy(getToken(localStorage))
  /\ Has(localStorage, "username")
  /\ route = "/todos"

\* The marker, the username and the userID of one user are stored.
Identified(l) ==
  /\ {MarkerKey, "username", "userID"} \subseteq DOMAIN l
  /\ l[MarkerKey] = "true"
  /\ l["username"] \in Users
  /\ l["userID"] = UserID(l["username"])

\* C27 as stated: a login response that is ok stores loggedIn = "true",
\* username, userID and the token; any other login response writes nothing.
C27_LoginStoresSession ==
  [][ last'.op = "loginResponse"
        => IF last'.outcome = "ok"
           THEN Identified(localStorage') /\ Has(localStorage', "token")
           ELSE localStorage' = localStorage ]_vars

\* C29: a validation response that arrives right after a successful login
\* stored a new token, from a request issued before that login, leaves the
\* new session's token, username and userID in storage whatever its
\* outcome.
C29_LateFailureSparesNewSession ==
  [][ ( /\ last.op = "loginResponse"
        /\ last.outcome = "ok"
        /\ Truthy(getToken(localStorage))
        /\ last'.op = "isValidTokenResponse" )
        => \A k \in SessionKeys :
             Has(localStorage', k) /\ localStorage'[k] = localStorage[k] ]_vars

\* C30: in every reachable state the stored loggedIn marker is "true"
\* exactly when isLoggedIn() is truthy.
C30_MarkerAgreesWithToken ==
  (Has(localStorage, MarkerKey) /\ localStorage[MarkerKey] = "true")
    <=> (isLoggedIn(localStorage, now) = JSTrue)

\* ProtectedRoute renders the loading view.
isLoading == route \in TodoRoutes /\ isAuthenticated \in {JSNull, Pending}

\* C28: TodoPage is rendered only once isValidToken has resolved true, and
\* only an ok response makes it so; while the validation is pending the
\* children are not rendered; a validation that resolves false ends on
\* /login; and, every request being answered, a ProtectedRoute that shows
\* the loading view comes to leave it.
C28_ChildrenOnlyAfterValidation ==
  /\ [](mounted => route \in TodoRoutes /\ isAuthenticated = JSTrue)
  /\ [][ (isAuthenticated' = JSTrue /\ isAuthenticated # JSTrue)
           => last'.op = "validateAuthResponse" /\ last'.outcome = "ok" ]_vars
  /\ [][ (last'.op \in {"validateAuth", "validateAuthResponse"}
            /\ last'.ret = JSFalse)
           => route' = "/login" /\ ~mounted' ]_vars
  /\ (isLoading ~> ~isLoading)

\* A rejected validation has sent a loading ProtectedRoute to /login.
C28_Witness ==
  /\ last.op = "validateAuthResponse"
  /\ last.outcome = "rejected"
  /\ route = "/login"
  /\ ~mounted
  /\ ~Has(localStorage, "token")

====
